---- MODULE Spec2Model ----
(***************************************************************************)
(* A model of memex.models.annotation.Annotation: the mapped columns, the  *)
(* hybrid properties text / target_uri with their derived columns, the     *)
(* threading accessors, the declarative constructor and the INSERT/UPDATE  *)
(* that the session issues for the object (column defaults, primary key).  *)
(*                                                                         *)
(* A Python value that may be None is an option: None is <<>> and a value  *)
(* v is <<v>>.  A list is a sequence; a dict is a set of key/value pairs.  *)
(* The columns userid, created, updated and document_id take no part in    *)
(* any operation modelled here and are left out.                           *)
(***************************************************************************)
EXTENDS Integers, Sequences, FiniteSets, TLC

VARIABLES ann, table, pc, last, seen

vars == <<ann, table, pc, last, seen>>

None == <<>>

Some(v) == <<v>>

Opt(S) == {None} \cup {Some(v) : v \in S}

\* Python truth value of a column holding None or a list.
Truthy(o) == o # None /\ o[1] # <<>>

(***************************************************************************)
(* Bounds and input domains.                                               *)
(***************************************************************************)
MaxRefs == 2

Records == {"A", "B"}

Ids == {"id1", "id2"}

Texts == {"a", "**hi**", "bad"}

Uris == {"http://a/#x", "http://b/", "http://["}

TagLists == {<<>>, <<"t">>}

SelectorLists == {<<>>, <<"sel">>}

Extras == {{}, {<<"k", "v">>}}

Groups == {"group1"}

RefSeqs == UNION {[1..n -> Ids] : n \in 0..MaxRefs}

(***************************************************************************)
(* Collaborators.  memex.markdown.render and memex.uri.normalize are not   *)
(* part of annotation.py; each is a function of its argument that either   *)
(* returns the derived string or raises.                                   *)
(***************************************************************************)
markdown_render(value) ==
    CASE value = "a" -> [raises |-> FALSE, val |-> "<p>a</p>"]
      [] value = "**hi**" -> [raises |-> FALSE, val |-> "<p><strong>hi</strong></p>"]
      [] OTHER -> [raises |-> TRUE, val |-> "RenderError"]

uri_normalize(value) ==
    CASE value = "http://a/#x" -> [raises |-> FALSE, val |-> "http://a"]
      [] value = "http://b/" -> [raises |-> FALSE, val |-> "http://b"]
      [] OTHER -> [raises |-> TRUE, val |-> "ValueError"]

(***************************************************************************)
(* The object.  state is "absent" before the constructor has run,          *)
(* "transient" until the session has inserted the row, then "persistent".  *)
(***************************************************************************)
Blank ==
    [state |-> "absent", id |-> None, groupid |-> None,
     _text |-> None, _text_rendered |-> None, tags |-> None, shared |-> None,
     _target_uri |-> None, _target_uri_normalized |-> None,
     target_selectors |-> None, references |-> None, extra |-> None,
     deleted |-> None]

\* The id the server generates for the row of record r (uuid_generate_v1mc):
\* distinct from every other generated id and from the client-chosen Ids.
uuid_generate_v1mc(r) == IF r = "A" THEN "uuidA" ELSE "uuidB"

ColumnDefault_tags_list(col) ==
    CASE col = "groupid" -> Some("__world__")
      [] col = "tags" -> Some(<<>>)
      [] col = "shared" -> Some(FALSE)
      [] col = "target_selectors" -> Some(<<>>)
      [] col = "references" -> Some(<<>>)
      [] col = "extra" -> Some({})
      [] col = "deleted" -> Some(FALSE)
      [] OTHER -> None

\* The value a column gets on INSERT when the object carries none.
ColumnDefault(col) ==
    CASE col = "groupid" -> Some("__world__")
      [] col = "shared" -> Some(FALSE)
      [] col = "target_selectors" -> Some(<<>>)
      [] col = "references" -> Some(<<>>)
      [] col = "extra" -> Some({})
      [] col = "deleted" -> Some(FALSE)
      [] OTHER -> None

OrDefault(a, col) == IF a[col] = None THEN ColumnDefault(col) ELSE a[col]

WithDefaults(a) ==
    [a EXCEPT !.groupid = OrDefault(a, "groupid"),
              !.tags = OrDefault(a, "tags"),
              !.shared = OrDefault(a, "shared"),
              !.target_selectors = OrDefault(a, "target_selectors"),
              !.references = OrDefault(a, "references"),
              !.extra = OrDefault(a, "extra"),
              !.deleted = OrDefault(a, "deleted")]

(***************************************************************************)
(* Threading accessors.                                                    *)
(***************************************************************************)
parent_id_first(a) ==
    IF Truthy(a.references) THEN Some(a.references[1][1]) ELSE None

parent_id(a) ==
    IF Truthy(a.references)
    THEN Some(a.references[1][Len(a.references[1])])
    ELSE None

thread_root_id_noelse(a) ==
    IF Truthy(a.references) THEN Some(a.references[1][1]) ELSE None

thread_root_id_last(a) ==
    IF Truthy(a.references)
    THEN Some(a.references[1][Len(a.references[1])])
    ELSE a.id

thread_root_id(a) ==
    IF Truthy(a.references) THEN Some(a.references[1][1]) ELSE a.id

(***************************************************************************)
(* Bookkeeping: pc is the position of the caller inside a setter, last is  *)
(* the most recent call and its outcome, seen is what a reader last read.  *)
(***************************************************************************)
Idle == [at |-> "idle", rec |-> "-", value |-> "-", before |-> None]

Log(op, r, attr, arg, before, kind, val, calls) ==
    [op |-> op, rec |-> r, attr |-> attr, arg |-> arg, before |-> before,
     kind |-> kind, val |-> val, calls |-> calls]

Return(op, r, attr, arg, val) == Log(op, r, attr, arg, None, "return", val, 0)

Raise(op, r, attr, arg, exc) == Log(op, r, attr, arg, None, "raise", Some(exc), 0)

Init ==
    /\ ann = [r \in Records |-> Blank]
    /\ table = [r \in Records |-> None]
    /\ pc = Idle
    /\ last = Return("none", "-", "-", None, None)
    /\ seen = [pair |-> "none", rec |-> "-", raw |-> None, derived |-> None]

(***************************************************************************)
(* The declarative constructor with keywords kw does setattr for every     *)
(* keyword, so text and target_uri go through their setters; a setter that *)
(* raises makes the constructor raise and no object results.               *)
(***************************************************************************)
\* The collaborator the setter of attr calls.
Collaborator(attr, value) ==
    IF attr = "text" THEN markdown_render(value) ELSE uri_normalize(value)

Derive(attr, o) ==
    IF o = None THEN [raises |-> FALSE, val |-> None]
    ELSE LET m == Collaborator(attr, o[1])
         IN [raises |-> m.raises, val |-> IF m.raises THEN m.val ELSE Some(m.val)]

Construct(r, kw) ==
    /\ pc.at = "idle"
    /\ ann[r].state = "absent"
    /\ LET t == Derive("text", kw.text)
           u == Derive("target_uri", kw.target_uri)
       IN IF t.raises \/ u.raises
          THEN /\ \E x \in {y \in {t, u} : y.raises} :
                     last' = Raise("Construct", r, "-", kw, x.val)
               /\ UNCHANGED ann
          ELSE /\ ann' = [ann EXCEPT ![r] =
                     [state |-> "transient", id |-> kw.id, groupid |-> kw.groupid,
                      _text |-> kw.text, _text_rendered |-> t.val,
                      tags |-> kw.tags, shared |-> kw.shared,
                      _target_uri |-> kw.target_uri,
                      _target_uri_normalized |-> u.val,
                      target_selectors |-> kw.target_selectors,
                      references |-> kw.references, extra |-> kw.extra,
                      deleted |-> kw.deleted]]
               /\ last' = Return("Construct", r, "-", kw, None)
    /\ UNCHANGED <<table, pc, seen>>

Flush_no_primary_key(r) ==
    /\ pc.at = "idle"
    /\ ann[r].state # "absent"
    /\ LET newid == IF ann[r].id = None THEN Some(uuid_generate_v1mc(r)) ELSE ann[r].id
           taken == {table[o] : o \in Records \ {r}} \ {None}
       IN IF FALSE /\ newid \in taken
          THEN /\ last' = Raise("Flush", r, "-", None, "IntegrityError")
               /\ UNCHANGED <<ann, table>>
          ELSE /\ ann' = [ann EXCEPT ![r] =
                     IF ann[r].state = "transient"
                     THEN WithDefaults([@ EXCEPT !.id = newid, !.state = "persistent"])
                     ELSE @]
               /\ table' = [table EXCEPT ![r] = newid]
               /\ last' = Return("Flush", r, "-", None, None)
    /\ UNCHANGED <<pc, seen>>

(***************************************************************************)
(* session.flush(): INSERT for a transient object (the server generates    *)
(* the id when there is none, column defaults fill the columns the object  *)
(* does not carry), UPDATE for a persistent one.  The primary key rejects  *)
(* a second row with the same id.                                          *)
(***************************************************************************)
Flush(r) ==
    /\ pc.at = "idle"
    /\ ann[r].state # "absent"
    /\ LET newid == IF ann[r].id = None THEN Some(uuid_generate_v1mc(r)) ELSE ann[r].id
           taken == {table[o] : o \in Records \ {r}} \ {None}
       IN IF newid \in taken
          THEN /\ last' = Raise("Flush", r, "-", None, "IntegrityError")
               /\ UNCHANGED <<ann, table>>
          ELSE /\ ann' = [ann EXCEPT ![r] =
                     IF ann[r].state = "transient"
                     THEN WithDefaults([@ EXCEPT !.id = newid, !.state = "persistent"])
                     ELSE @]
               /\ table' = [table EXCEPT ![r] = newid]
               /\ last' = Return("Flush", r, "-", None, None)
    /\ UNCHANGED <<pc, seen>>

(***************************************************************************)
(* Reading the threading properties.                                       *)
(***************************************************************************)
call_parent_id(r) ==
    /\ pc.at = "idle"
    /\ ann[r].state # "absent"
    /\ last' = Return("parent_id", r, "-", None, parent_id(ann[r]))
    /\ UNCHANGED <<ann, table, pc, seen>>

call_thread_root_id(r) ==
    /\ pc.at = "idle"
    /\ ann[r].state # "absent"
    /\ last' = Return("thread_root_id", r, "-", None, thread_root_id(ann[r]))
    /\ UNCHANGED <<ann, table, pc, seen>>

(***************************************************************************)
(* The text setter.  Its two statements are two steps of the caller: the   *)
(* raw column is assigned, then markdown.render is called and its result   *)
(* assigned to the derived column; an exception of the collaborator leaves *)
(* the setter at once.                                                     *)
(***************************************************************************)
text_setter_assign(r, value) ==
    /\ pc.at = "idle"
    /\ ann[r].state # "absent"
    /\ ann' = [ann EXCEPT ![r]._text = Some(value)]
    /\ pc' = [at |-> "text_render", rec |-> r, value |-> value,
              before |-> ann[r]._text_rendered]
    /\ last' = Log("setattr", r, "text", Some(value), ann[r]._text_rendered,
                   "running", None, 0)
    /\ UNCHANGED <<table, seen>>

text_setter_render_clears(r) ==
    /\ pc.at = "text_render"
    /\ pc.rec = r
    /\ LET m == markdown_render(pc.value)
       IN IF m.raises
          THEN /\ last' = Log("setattr", r, "text", Some(pc.value), pc.before,
                              "raise", Some(m.val), last.calls + 1)
               /\ ann' = [ann EXCEPT ![r]._text_rendered = None]
          ELSE /\ ann' = [ann EXCEPT ![r]._text_rendered = Some(m.val)]
               /\ last' = Log("setattr", r, "text", Some(pc.value), pc.before,
                              "return", None, last.calls + 1)
    /\ pc' = Idle
    /\ UNCHANGED <<table, seen>>

text_setter_render(r) ==
    /\ pc.at = "text_render"
    /\ pc.rec = r
    /\ LET m == markdown_render(pc.value)
       IN IF m.raises
          THEN /\ last' = Log("setattr", r, "text", Some(pc.value), pc.before,
                              "raise", Some(m.val), last.calls + 1)
               /\ UNCHANGED ann
          ELSE /\ ann' = [ann EXCEPT ![r]._text_rendered = Some(m.val)]
               /\ last' = Log("setattr", r, "text", Some(pc.value), pc.before,
                              "return", None, last.calls + 1)
    /\ pc' = Idle
    /\ UNCHANGED <<table, seen>>

(***************************************************************************)
(* The target_uri setter, likewise with uri.normalize.                     *)
(***************************************************************************)
target_uri_setter_assign(r, value) ==
    /\ pc.at = "idle"
    /\ ann[r].state # "absent"
    /\ ann' = [ann EXCEPT ![r]._target_uri = Some(value)]
    /\ pc' = [at |-> "uri_normalize", rec |-> r, value |-> value,
              before |-> ann[r]._target_uri_normalized]
    /\ last' = Log("setattr", r, "target_uri", Some(value),
                   ann[r]._target_uri_normalized, "running", None, 0)
    /\ UNCHANGED <<table, seen>>

target_uri_setter_normalize(r) ==
    /\ pc.at = "uri_normalize"
    /\ pc.rec = r
    /\ LET m == uri_normalize(pc.value)
       IN IF m.raises
          THEN /\ last' = Log("setattr", r, "target_uri", Some(pc.value), pc.before,
                              "raise", Some(m.val), last.calls + 1)
               /\ UNCHANGED ann
          ELSE /\ ann' = [ann EXCEPT ![r]._target_uri_normalized = Some(m.val)]
               /\ last' = Log("setattr", r, "target_uri", Some(pc.value), pc.before,
                              "return", None, last.calls + 1)
    /\ pc' = Idle
    /\ UNCHANGED <<table, seen>>

(***************************************************************************)
(* Assignment to text_rendered or target_uri_normalized: the hybrid        *)
(* property has a getter only, so the assignment raises AttributeError.    *)
(***************************************************************************)
DerivedAttrs == {"text_rendered", "target_uri_normalized"}

BackingColumn(attr) ==
    IF attr = "text_rendered" THEN "_text_rendered" ELSE "_target_uri_normalized"

assign_derived_with_setter(r, attr, value) ==
    /\ pc.at = "idle"
    /\ ann[r].state # "absent"
    /\ ann' = [ann EXCEPT ![r][BackingColumn(attr)] = Some(value)]
    /\ last' = Return("setattr", r, attr, Some(value), None)
    /\ UNCHANGED <<table, pc, seen>>

assign_derived(r, attr, value) ==
    /\ pc.at = "idle"
    /\ ann[r].state # "absent"
    /\ last' = Raise("setattr", r, attr, Some(value), "AttributeError")
    /\ UNCHANGED <<ann, table, pc, seen>>

(***************************************************************************)
(* Assignment to a plain mapped column (id, groupid, tags, shared,         *)
(* target_selectors, references, extra, deleted) stores the value.         *)
(***************************************************************************)
ColumnValues(col) ==
    CASE col = "id" -> Ids
      [] col = "groupid" -> Groups
      [] col = "tags" -> TagLists
      [] col = "shared" -> BOOLEAN
      [] col = "target_selectors" -> SelectorLists
      [] col = "references" -> RefSeqs
      [] col = "extra" -> Extras
      [] col = "deleted" -> BOOLEAN

assign_column(r, col, value) ==
    /\ pc.at = "idle"
    /\ ann[r].state # "absent"
    /\ ann' = [ann EXCEPT ![r][col] = Some(value)]
    /\ last' = Return("setattr", r, col, Some(value), None)
    /\ UNCHANGED <<table, pc, seen>>

(***************************************************************************)
(* A reader, possibly in another thread than the caller of the setters,    *)
(* reads a raw attribute and its derived attribute.                        *)
(***************************************************************************)
read_text(r) ==
    /\ ann[r].state # "absent"
    /\ seen' = [pair |-> "text", rec |-> r, raw |-> ann[r]._text,
                derived |-> ann[r]._text_rendered]
    /\ UNCHANGED <<ann, table, pc, last>>

read_target_uri(r) ==
    /\ ann[r].state # "absent"
    /\ seen' = [pair |-> "target_uri", rec |-> r, raw |-> ann[r]._target_uri,
                derived |-> ann[r]._target_uri_normalized]
    /\ UNCHANGED <<ann, table, pc, last>>

(***************************************************************************)
(* Keyword sets.                                                           *)
(***************************************************************************)
U == {None}

Kw(idS, groupS, textS, tagsS, sharedS, uriS, selS, refS, extraS, delS) ==
    [id : idS, groupid : groupS, text : textS, tags : tagsS, shared : sharedS,
     target_uri : uriS, target_selectors : selS, references : refS,
     extra : extraS, deleted : delS]

KwThread == Kw(Opt(Ids), U, U, U, U, U, U, Opt(RefSeqs), U, U)

KwDerived == Kw({Some("id1")}, U, Opt(Texts), U, U, Opt(Uris), U, U, U, U)

(***************************************************************************)
(* Derived columns: one record built with any text and target_uri, then    *)
(* any sequence of assignments to text, target_uri and the derived         *)
(* attributes, with insertion, soft delete and a reader in between.        *)
(***************************************************************************)
NextDerived ==
    \/ \E kw \in KwDerived : Construct("A", kw)
    \/ \E v \in Texts : text_setter_assign("A", v)
    \/ text_setter_render("A")
    \/ \E v \in Uris : target_uri_setter_assign("A", v)
    \/ target_uri_setter_normalize("A")
    \/ \E attr \in DerivedAttrs : assign_derived("A", attr, "<b>x</b>")
    \/ assign_column("A", "deleted", TRUE)
    \/ Flush("A")
    \/ read_text("A")
    \/ read_target_uri("A")

SpecDerived == Init /\ [][NextDerived]_vars

KwDefaults ==
    Kw({Some("id1")}, Opt(Groups), U, Opt(TagLists), Opt(BOOLEAN), U,
       Opt(SelectorLists), Opt({<<>>, <<"id2">>}), Opt(Extras), Opt(BOOLEAN))

KwId == Kw(Opt(Ids), U, U, U, U, U, U, U, U, U)

KwAll ==
    Kw(Opt(Ids), Opt(Groups), Opt(Texts), Opt(TagLists), Opt(BOOLEAN), Opt(Uris),
       Opt(SelectorLists), Opt(RefSeqs), Opt(Extras), Opt(BOOLEAN))

PlainColumns ==
    {"id", "groupid", "tags", "shared", "target_selectors", "references",
     "extra", "deleted"}

(***************************************************************************)
(* Every operation on every record with every input.                       *)
(***************************************************************************)
Next ==
    \/ \E r \in Records, kw \in KwAll : Construct(r, kw)
    \/ \E r \in Records : Flush(r)
    \/ \E r \in Records, v \in Texts : text_setter_assign(r, v)
    \/ \E r \in Records : text_setter_render(r)
    \/ \E r \in Records, v \in Uris : target_uri_setter_assign(r, v)
    \/ \E r \in Records : target_uri_setter_normalize(r)
    \/ \E r \in Records, attr \in DerivedAttrs : assign_derived(r, attr, "<b>x</b>")
    \/ \E r \in Records, col \in PlainColumns :
           \E v \in ColumnValues(col) : assign_column(r, col, v)
    \/ \E r \in Records : call_parent_id(r)
    \/ \E r \in Records : call_thread_root_id(r)
    \/ \E r \in Records : read_text(r)
    \/ \E r \in Records : read_target_uri(r)

Spec == Init /\ [][Next]_vars

(***************************************************************************)
(* Column defaults: one record built with any subset of the defaulted      *)
(* columns and tags, inserted, and edited.                                 *)
(***************************************************************************)
NextDefaults ==
    \/ \E kw \in KwDefaults : Construct("A", kw)
    \/ Flush("A")
    \/ \E col \in {"tags", "shared", "target_selectors", "extra", "deleted"} :
           \E v \in ColumnValues(col) : assign_column("A", col, v)

SpecDefaults == Init /\ [][NextDefaults]_vars

(***************************************************************************)
(* Identity: two records built with any id, given ids and flushed; record  *)
(* A also receives the setters, the edits and the soft delete.             *)
(***************************************************************************)
NextId ==
    \/ \E r \in Records, kw \in KwId : Construct(r, kw)
    \/ \E r \in Records : Flush(r)
    \/ \E r \in Records, v \in Ids : assign_column(r, "id", v)
    \/ text_setter_assign("A", "a")
    \/ text_setter_render("A")
    \/ target_uri_setter_assign("A", "http://b/")
    \/ target_uri_setter_normalize("A")
    \/ assign_column("A", "tags", <<"t">>)
    \/ assign_column("A", "target_selectors", <<"sel">>)
    \/ assign_column("A", "shared", TRUE)
    \/ assign_column("A", "extra", {<<"k", "v">>})
    \/ assign_column("A", "deleted", TRUE)

SpecId == Init /\ [][NextId]_vars

(***************************************************************************)
(* Threading: one record built with any id and references, inserted, and   *)
(* asked for its parent and thread root.                                   *)
(***************************************************************************)
NextThread ==
    \/ \E kw \in KwThread : Construct("A", kw)
    \/ Flush("A")
    \/ \E v \in Ids : assign_column("A", "id", v)
    \/ \E v \in RefSeqs : assign_column("A", "references", v)
    \/ call_parent_id("A")
    \/ call_thread_root_id("A")

SpecThread == Init /\ [][NextThread]_vars

\* The record the most recent call was made on.
Target == ann[last.rec]

\* A raw value and a derived value agree under collaborator f: the derived
\* value is what f returns for the raw value, and null where there is no raw
\* value or f has no result for it.
InSync(attr, raw, derived) ==
    derived = IF raw = None THEN None
              ELSE IF Collaborator(attr, raw[1]).raises THEN None
              ELSE Some(Collaborator(attr, raw[1]).val)

\* C1: between calls, text_rendered is the rendering of the current text and
\* never the rendering of an earlier text value.
C1_TextRenderedFollowsText ==
    \A r \in Records :
        (ann[r].state # "absent" /\ pc.at = "idle") =>
            InSync("text", ann[r]._text, ann[r]._text_rendered)

\* C2: between calls, target_uri_normalized is the normal form of the current
\* target_uri.
C2_NormalizedFollowsTargetUri ==
    \A r \in Records :
        (ann[r].state # "absent" /\ pc.at = "idle") =>
            InSync("target_uri", ann[r]._target_uri, ann[r]._target_uri_normalized)

\* C7: a reader never observes a raw field that holds a new value next to a
\* derived field that still holds the value derived from the old one.
C7_ReaderSeesNoTornPair ==
    /\ seen.pair = "text" => InSync("text", seen.raw, seen.derived)
    /\ seen.pair = "target_uri" => InSync("target_uri", seen.raw, seen.derived)

\* C8: text_rendered changes only in the step of the text setter that stores
\* the rendering, target_uri_normalized only in the step of the target_uri
\* setter that stores the normal form, and an assignment to either derived
\* attribute raises and changes nothing.
C8_DerivedWrittenOnlyBySetter ==
    [][\A r \in Records :
          ann[r].state # "absent" =>
              /\ ann'[r]._text_rendered # ann[r]._text_rendered =>
                     (pc.at = "text_render" /\ pc.rec = r /\ pc'.at = "idle")
              /\ ann'[r]._target_uri_normalized # ann[r]._target_uri_normalized =>
                     (pc.at = "uri_normalize" /\ pc.rec = r /\ pc'.at = "idle")
              /\ (last'.op = "setattr" /\ last'.rec = r /\ last'.attr \in DerivedAttrs) =>
                     (last'.kind = "raise" /\ last'.val = Some("AttributeError")
                      /\ ann' = ann)]_vars

C8_Witness ==
    /\ last.op = "setattr"
    /\ last.attr = "text_rendered"
    /\ last.kind = "raise"
    /\ Target._text_rendered = Some("<p>a</p>")

\* C10: when the collaborator raises inside a setter, the caller gets that
\* exception after a single call of the collaborator, the raw field holds the
\* new value and the derived field the value it had before the call.
C10_FailedSetterKeepsRawNewDerivedOld ==
    (last.op = "setattr" /\ last.kind = "raise" /\ last.attr \in {"text", "target_uri"}) =>
        /\ pc.at = "idle"
        /\ last.calls = 1
        /\ last.attr = "text" =>
               /\ last.val = Some("RenderError")
               /\ Target._text = last.arg
               /\ Target._text_rendered = last.before
        /\ last.attr = "target_uri" =>
               /\ last.val = Some("ValueError")
               /\ Target._target_uri = last.arg
               /\ Target._target_uri_normalized = last.before

C10_Witness ==
    /\ last.op = "setattr"
    /\ last.attr = "text"
    /\ last.kind = "raise"
    /\ Target._text = Some("bad")
    /\ Target._text_rendered = Some("<p>a</p>")

\* The values the defaulted columns and tags are said to take.
StatedDefault(col) ==
    CASE col = "groupid" -> Some("__world__")
      [] col = "shared" -> Some(FALSE)
      [] col = "deleted" -> Some(FALSE)
      [] col = "tags" -> Some(<<>>)
      [] col = "target_selectors" -> Some(<<>>)
      [] col = "references" -> Some(<<>>)
      [] col = "extra" -> Some({})

DefaultedColumns ==
    {"groupid", "shared", "deleted", "target_selectors", "references", "extra"}

Inserted(r) == ann[r].state = "transient" /\ ann'[r].state = "persistent"

RowsUnique ==
    \A r1, r2 \in Records :
        (r1 # r2 /\ table[r1] # None) => table[r1] # table[r2]

\* C9 as stated: ids of stored records are pairwise different, and the id of
\* a record that has one is the same after every operation, an assignment to
\* id included.
C9_IdUniqueAndNeverChanges ==
    /\ []RowsUnique
    /\ [][\A r \in Records : ann[r].id # None => ann'[r].id = ann[r].id]_vars

\* C9 as amended: ids of stored records are pairwise different, and the id of
\* a record that has one is changed by no operation other than an assignment
\* to id, which is accepted and stores the assigned value.
C9_IdUniqueAndChangedOnlyByAssignment ==
    /\ []RowsUnique
    /\ [][\A r \in Records :
             (ann[r].id # None /\ ann'[r].id # ann[r].id) =>
                 /\ last'.op = "setattr"
                 /\ last'.attr = "id"
                 /\ last'.rec = r
                 /\ last'.kind = "return"
                 /\ ann'[r].id = last'.arg]_vars

C9_Witness ==
    /\ last.op = "Flush"
    /\ last.rec = "B"
    /\ last.kind = "raise"
    /\ table["A"] = Some("id1")
    /\ table["B"] = Some("id2")
    /\ ann["B"].id = Some("id1")
    /\ ann["A"].id = Some("id1")
    /\ ann["A"]._text_rendered = Some("<p>a</p>")
    /\ ann["A"].deleted = Some(TRUE)

\* C3: thread_root_id() returns the record's own id when references is empty
\* (or unset) and the first element of references when it is non-empty.
C3_ThreadRootIsFirstReferenceOrOwnId ==
    last.op = "thread_root_id" =>
        /\ Target.references \in {None, Some(<<>>)} => last.val = Target.id
        /\ Target.references \notin {None, Some(<<>>)} =>
               last.val = Some(Head(Target.references[1]))

C3_Witness ==
    /\ last.op = "thread_root_id"
    /\ Target.references = Some(<<"id1", "id2">>)
    /\ last.val = Some("id1")

\* C4: parent_id() returns null when references is empty (or unset) and the
\* last element of references when it is non-empty; for a single-element
\* references it is the same id as thread_root_id().
C4_ParentIsLastReferenceOrNull ==
    last.op = "parent_id" =>
        /\ Target.references \in {None, Some(<<>>)} => last.val = None
        /\ Target.references \notin {None, Some(<<>>)} =>
               \E n \in 1..(MaxRefs + 1) :
                   /\ n = Len(Target.references[1])
                   /\ last.val = Some(Target.references[1][n])
                   /\ n = 1 => last.val = thread_root_id(Target)

C4_Witness ==
    /\ last.op = "parent_id"
    /\ Target.references = Some(<<"id1", "id2">>)
    /\ last.val = Some("id2")

\* C5 as stated: thread_root_id() never returns null, also on a freshly
\* constructed record that has no id yet and whose references is empty or unset.
C5_ThreadRootNeverNull ==
    last.op = "thread_root_id" => last.val # None

\* C5 as amended: thread_root_id() returns a non-null identifier whenever
\* references is non-empty or the record has an id (given to the constructor,
\* assigned, or generated on insertion); on a record with no id and empty or
\* unset references it returns null.
C5_ThreadRootNullOnlyWithoutId ==
    last.op = "thread_root_id" =>
        (last.val = None <=>
            (Target.id = None /\ Target.references \in {None, Some(<<>>)}))

C5_Witness ==
    /\ last.op = "thread_root_id"
    /\ Target.state = "persistent"
    /\ Target.references = Some(<<>>)
    /\ last.val = Some("uuidA")

====
